---- MODULE Spec2Model ----
(***************************************************************************)
(* Model of kiara_plugin.tropy models.py: the NetworkGraph wrapper around  *)
(* an edges table and a nodes table, its three factory methods, its        *)
(* conversion to and from networkx graph objects, its SQL query method,    *)
(* and the NetworkGraphProperties metadata.                                *)
(*                                                                         *)
(* Data representation                                                     *)
(*   optional value : <<>> (None) or <<x>>                                 *)
(*   table          : [kind, cols, rows]; cols a sequence of column names, *)
(*                    rows a sequence of value sequences aligned with cols;*)
(*                    kind is "arrow" (a pyarrow Table, whose truth value  *)
(*                    is its row count) or "kiara" (a KiaraTable object)   *)
(*   dict           : a sequence of <<key, value>> pairs in insertion      *)
(*                    order (python dict)                                  *)
(*   graph object   : [cls, nodes, edges]; nodes a sequence of             *)
(*                    [id, attrs], edges a sequence of [u, v, attrs], both *)
(*                    in first-insertion order                             *)
(***************************************************************************)
EXTENDS Integers, Sequences, FiniteSets, TLC

\* ------------------------------------------------------------------ bounds
\* most rows of an edges table
MaxRows == 2
\* node identifiers are 1..MaxVal
MaxVal == 2
\* most rows of a supplied nodes table
MaxNodeRows == 1
\* most query calls on one NetworkGraph
MaxQueries == 2

\* ------------------------------------------------------------- basic data
None == <<>>
Some(x) == <<x>>

ToSet(s) == {s[i] : i \in 1..Len(s)}
InSeq(x, s) == \E i \in 1..Len(s) : s[i] = x
SeqsUpTo(S, n) == UNION {[1..k -> S] : k \in 0..n}

RECURSIVE SortAsc(_)
SortAsc(S) ==
  IF S = {} THEN <<>>
  ELSE LET m == CHOOSE x \in S : \A y \in S : x <= y
       IN <<m>> \o SortAsc(S \ {m})

\* the sequence without its repeated elements, first occurrences kept
RECURSIVE Distinct(_)
Distinct(s) ==
  IF s = <<>> THEN <<>>
  ELSE LET r == Distinct(SubSeq(s, 1, Len(s) - 1))
       IN IF InSeq(s[Len(s)], r) THEN r ELSE Append(r, s[Len(s)])

\* python dict as a sequence of <<key, value>> pairs
Keys(d) == [i \in 1..Len(d) |-> d[i][1]]
Has(d, k) == \E i \in 1..Len(d) : d[i][1] = k
Get(d, k) == d[CHOOSE i \in 1..Len(d) : d[i][1] = k][2]
SetItem(d, k, v) ==
  IF Has(d, k) THEN [i \in 1..Len(d) |-> IF d[i][1] = k THEN <<k, v>> ELSE d[i]]
  ELSE Append(d, <<k, v>>)
RECURSIVE DictUpdate(_, _)
DictUpdate(d, e) ==
  IF e = <<>> THEN d ELSE DictUpdate(SetItem(d, e[1][1], e[1][2]), Tail(e))

\* the table names of a NetworkGraph
EDGES_TABLE_NAME == "edges"
NODES_TABLE_NAME == "nodes"

\* the four values of NetworkGraph.graph_type
GraphTypes == {"directed", "undirected", "directed_multi", "undirected_multi"}

\* ----------------------------------------------------------------- tables
ColIndex(cols, c) == CHOOSE i \in 1..Len(cols) : cols[i] = c
column(t, c) == [i \in 1..Len(t.rows) |-> t.rows[i][ColIndex(t.cols, c)]]
num_rows(t) == Len(t.rows)
\* pandas Series.to_dict() of one row: column name -> value, in column order
row_to_dict(t, i) == [j \in 1..Len(t.cols) |-> <<t.cols[j], t.rows[i][j]>>]

\* KiaraTable.create_table: wraps tabular data into a KiaraTable
create_table(data) == [kind |-> "kiara", cols |-> data.cols, rows |-> data.rows]

\* truth value of an optional table argument, which is None, a pyarrow Table or
\* a KiaraTable: None is false, a pyarrow Table is true iff it has rows
\* (Table.__len__), a KiaraTable object is true
Truthy(opt) ==
  IF opt = None THEN FALSE
  ELSE IF opt[1].kind = "arrow" THEN Len(opt[1].rows) > 0
  ELSE TRUE

\* ---------------------------------------------------------------- results
Ok(g) == [status |-> "ok", graph |-> Some(g), error |-> None]
Raise(exc, what, table, col, available) ==
  [status |-> "error", graph |-> None,
   error |-> Some([exc |-> exc, what |-> what, table |-> table,
                   column |-> col, available |-> available])]

\* the NetworkGraph constructor call of create_from_tables
NetworkGraph(graph_type, s, t, n, edges_table, nodes_table) ==
  [graph_type |-> graph_type,
   source_column_name |-> s,
   target_column_name |-> t,
   node_id_column_name |-> n,
   tables |-> <<<<EDGES_TABLE_NAME, edges_table>>, <<NODES_TABLE_NAME, nodes_table>>>>]

edges(g) == Get(g.tables, EDGES_TABLE_NAME)
nodes(g) == Get(g.tables, NODES_TABLE_NAME)
num_nodes(g) == num_rows(nodes(g))
num_edges(g) == num_rows(edges(g))

\* variant of infer_nodes that reads the source column only and keeps the
\* row order (no UNION with the target column, no ORDER BY)
infer_nodes_source_unordered(edges_table, s, t, n) ==
  LET ordered == Distinct(column(edges_table, s))
  IN [kind |-> "arrow", cols |-> <<n>>,
      rows |-> [i \in 1..Len(ordered) |-> <<ordered[i]>>]]

\* the SQL of create_from_tables: SELECT DISTINCT over the UNION of the source
\* and target columns, aliased to the node id column, ORDER BY that column
infer_nodes(edges_table, s, t, n) ==
  LET combined == ToSet(column(edges_table, s)) \cup ToSet(column(edges_table, t))
      ordered == SortAsc(combined)
  IN [kind |-> "arrow", cols |-> <<n>>,
      rows |-> [i \in 1..Len(ordered) |-> <<ordered[i]>>]]

\* variant of create_from_tables that validates the nodes table before the
\* edges table
create_from_tables_nodes_first(graph_type, edges_in, nodes_in, s, t, n) ==
  LET edges_table == create_table(edges_in)
      nodes_table == IF Truthy(nodes_in) THEN Some(create_table(nodes_in[1])) ELSE None
      edges_columns == edges_table.cols
  IN IF Truthy(nodes_table) /\ ~InSeq(n, nodes_table[1].cols)
       THEN Raise("Exception", "missing_column", NODES_TABLE_NAME, n, nodes_table[1].cols)
     ELSE IF ~InSeq(s, edges_columns)
       THEN Raise("Exception", "missing_column", EDGES_TABLE_NAME, s, edges_columns)
     ELSE IF ~InSeq(t, edges_columns)
       THEN Raise("Exception", "missing_column", EDGES_TABLE_NAME, t, edges_columns)
     ELSE IF ~Truthy(nodes_table)
       THEN Ok(NetworkGraph(graph_type, s, t, n, edges_table,
                            create_table(infer_nodes(edges_table, s, t, n))))
     ELSE Ok(NetworkGraph(graph_type, s, t, n, edges_table, nodes_table[1]))

\* variant of create_from_tables that does not validate a supplied nodes table
create_from_tables_nodes_unchecked(graph_type, edges_in, nodes_in, s, t, n) ==
  LET edges_table == create_table(edges_in)
      nodes_table == IF Truthy(nodes_in) THEN Some(create_table(nodes_in[1])) ELSE None
      edges_columns == edges_table.cols
  IN IF ~InSeq(s, edges_columns)
       THEN Raise("Exception", "missing_column", EDGES_TABLE_NAME, s, edges_columns)
     ELSE IF ~InSeq(t, edges_columns)
       THEN Raise("Exception", "missing_column", EDGES_TABLE_NAME, t, edges_columns)
     ELSE IF ~Truthy(nodes_table)
       THEN Ok(NetworkGraph(graph_type, s, t, n, edges_table,
                            create_table(infer_nodes(edges_table, s, t, n))))
     ELSE Ok(NetworkGraph(graph_type, s, t, n, edges_table, nodes_table[1]))

create_from_tables(graph_type, edges_in, nodes_in, s, t, n) ==
  LET edges_table == create_table(edges_in)
      nodes_table == IF Truthy(nodes_in) THEN Some(create_table(nodes_in[1])) ELSE None
      edges_columns == edges_table.cols
  IN IF ~InSeq(s, edges_columns)
       THEN Raise("Exception", "missing_column", EDGES_TABLE_NAME, s, edges_columns)
     ELSE IF ~InSeq(t, edges_columns)
       THEN Raise("Exception", "missing_column", EDGES_TABLE_NAME, t, edges_columns)
     ELSE IF ~Truthy(nodes_table)
       THEN Ok(NetworkGraph(graph_type, s, t, n, edges_table,
                            create_table(infer_nodes(edges_table, s, t, n))))
     ELSE IF ~InSeq(n, nodes_table[1].cols)
       THEN Raise("Exception", "missing_column", NODES_TABLE_NAME, n, nodes_table[1].cols)
     ELSE Ok(NetworkGraph(graph_type, s, t, n, edges_table, nodes_table[1]))

\* tables: a KiaraTables collection, a dict from table name to KiaraTable
create_from_kiara_tables(graph_type, tables, s, t, n) ==
  IF ~Has(tables, EDGES_TABLE_NAME)
    THEN Raise("KiaraException", "no_edges_table", EDGES_TABLE_NAME, "", <<>>)
  ELSE LET nodes_table == IF ~Has(tables, NODES_TABLE_NAME) THEN None
                          ELSE Some(Get(tables, NODES_TABLE_NAME))
       IN create_from_tables(graph_type, Get(tables, EDGES_TABLE_NAME), nodes_table, s, t, n)

\* ---------------------------------------------------------- graph objects
\* networkx classes with their base classes (isinstance follows inheritance);
\* "object" stands for any value that is not a networkx graph
Bases(cls) ==
  CASE cls = "MultiDiGraph" -> {"MultiDiGraph", "MultiGraph", "DiGraph", "Graph"}
    [] cls = "MultiGraph" -> {"MultiGraph", "Graph"}
    [] cls = "DiGraph" -> {"DiGraph", "Graph"}
    [] cls = "Graph" -> {"Graph"}
    [] OTHER -> {}
isinstance(graph, cls) == cls \in Bases(graph.cls)
is_directed(graph) == isinstance(graph, "DiGraph")
is_multigraph(graph) == isinstance(graph, "MultiGraph")

EmptyGraph(cls) == [cls |-> cls, nodes |-> <<>>, edges |-> <<>>]
has_node(graph, id) == \E i \in 1..Len(graph.nodes) : graph.nodes[i].id = id
NodeIndex(graph, id) == CHOOSE i \in 1..Len(graph.nodes) : graph.nodes[i].id = id
node_attrs(graph, id) == graph.nodes[NodeIndex(graph, id)].attrs

\* Graph.add_node(id, **attrs): a new node gets the attributes, an existing
\* node's attribute dict is updated
add_node(graph, id, attrs) ==
  IF has_node(graph, id)
    THEN [graph EXCEPT !.nodes[NodeIndex(graph, id)].attrs = DictUpdate(@, attrs)]
  ELSE [graph EXCEPT !.nodes = Append(@, [id |-> id, attrs |-> attrs])]

\* edge e joins the same endpoints as (u, v): the ordered pair in a directed
\* graph, the unordered pair in an undirected one
SameEdge(graph, e, u, v) ==
  (e.u = u /\ e.v = v) \/ (~is_directed(graph) /\ e.u = v /\ e.v = u)

\* Graph.add_edge(u, v, **attrs): endpoints are added as attribute-less nodes
\* when absent; a multigraph always stores a new edge under a fresh key, a
\* simple graph updates the attribute dict of the edge it already has
add_edge(graph, u, v, attrs) ==
  LET g1 == IF has_node(graph, u) THEN graph ELSE add_node(graph, u, <<>>)
      g2 == IF has_node(g1, v) THEN g1 ELSE add_node(g1, v, <<>>)
      hit == {i \in 1..Len(g2.edges) : SameEdge(g2, g2.edges[i], u, v)}
  IN IF is_multigraph(g2) \/ hit = {}
       THEN [g2 EXCEPT !.edges = Append(@, [u |-> u, v |-> v, attrs |-> attrs])]
     ELSE [g2 EXCEPT !.edges[CHOOSE i \in hit : TRUE].attrs = DictUpdate(@, attrs)]

\* the edges reported at node number k of the graph, as G.edges(data=True)
\* iterates them: by neighbour in adjacency order, then by key; an undirected
\* graph skips the neighbours it has already visited
EdgesAtNode(graph, k) ==
  LET n == graph.nodes[k].id
      touching == SelectSeq(graph.edges,
                    LAMBDA e : e.u = n \/ (~is_directed(graph) /\ e.v = n))
      other(e) == IF e.u = n THEN e.v ELSE e.u
      nbrs == Distinct([i \in 1..Len(touching) |-> other(touching[i])])
      seen(m) == ~is_directed(graph) /\ NodeIndex(graph, m) < k
      At[j \in 0..Len(nbrs)] ==
        IF j = 0 THEN <<>>
        ELSE IF seen(nbrs[j]) THEN At[j - 1]
        ELSE LET es == SelectSeq(touching, LAMBDA e : other(e) = nbrs[j])
             IN At[j - 1] \o [i \in 1..Len(es) |->
                               [u |-> n, v |-> nbrs[j], attrs |-> es[i].attrs]]
  IN At[Len(nbrs)]

RECURSIVE EdgesUpTo(_, _)
EdgesUpTo(graph, k) ==
  IF k = 0 THEN <<>> ELSE EdgesUpTo(graph, k - 1) \o EdgesAtNode(graph, k)

\* graph.edges(data=True)
edge_view(graph) == EdgesUpTo(graph, Len(graph.nodes))
number_of_nodes(graph) == Len(graph.nodes)

\* variant of GraphClass that builds a simple graph for the multi graph types
GraphClass_simple_only(graph_type) ==
  CASE graph_type = "directed" -> "DiGraph"
    [] graph_type = "undirected" -> "Graph"
    [] graph_type = "directed_multi" -> "DiGraph"
    [] graph_type = "undirected_multi" -> "Graph"

\* ------------------------------------------------------ as_networkx_graph
\* the graph class as_networkx_graph instantiates for a graph type
GraphClass(graph_type) ==
  CASE graph_type = "directed" -> "DiGraph"
    [] graph_type = "undirected" -> "Graph"
    [] graph_type = "directed_multi" -> "MultiDiGraph"
    [] graph_type = "undirected_multi" -> "MultiGraph"

RECURSIVE AddNodeRows(_, _, _)
AddNodeRows(graph, g, k) ==
  IF k = 0 THEN graph
  ELSE add_node(AddNodeRows(graph, g, k - 1),
                column(nodes(g), g.node_id_column_name)[k],
                row_to_dict(nodes(g), k))

RECURSIVE AddEdgeRows(_, _, _)
AddEdgeRows(graph, g, k) ==
  IF k = 0 THEN graph
  ELSE add_edge(AddEdgeRows(graph, g, k - 1),
                column(edges(g), g.source_column_name)[k],
                column(edges(g), g.target_column_name)[k],
                row_to_dict(edges(g), k))

as_networkx_graph(g) ==
  LET graph == EmptyGraph(GraphClass(g.graph_type))
      with_nodes == AddNodeRows(graph, g, num_nodes(g))
  IN AddEdgeRows(with_nodes, g, num_edges(g))

\* NetworkGraphProperties.create_value_metadata
create_value_metadata(g) ==
  LET graph == as_networkx_graph(g)
  IN [number_of_nodes |-> number_of_nodes(graph),
      number_of_edges |-> Len(edge_view(graph))]

\* --------------------------------------------- create_from_networkx_graph
\* value pandas fills in where a row has no entry for a column
NaN == -1
\* str(uuid.uuid4()): two fresh names, distinct from every column name in use
TEMP_SOURCE == "uuid4-a"
TEMP_TARGET == "uuid4-b"
PLACEHOLDER == "_x_placeholder_x_"
INDEX == "index"

GetOr(d, k, default) == IF Has(d, k) THEN Get(d, k) ELSE default

\* variant of classify that tests MultiGraph before MultiDiGraph
classify_multigraph_first(graph) ==
  IF isinstance(graph, "MultiGraph") THEN Some("undirected_multi")
  ELSE IF isinstance(graph, "MultiDiGraph") THEN Some("directed_multi")
  ELSE IF isinstance(graph, "DiGraph") THEN Some("directed")
  ELSE IF isinstance(graph, "Graph") THEN Some("undirected")
  ELSE None

\* the isinstance chain that picks the graph type; <<>> when no branch matches
classify(graph) ==
  IF isinstance(graph, "MultiDiGraph") THEN Some("directed_multi")
  ELSE IF isinstance(graph, "MultiGraph") THEN Some("undirected_multi")
  ELSE IF isinstance(graph, "DiGraph") THEN Some("directed")
  ELSE IF isinstance(graph, "Graph") THEN Some("undirected")
  ELSE None

RECURSIVE AllKeys(_)
\* the keys of a sequence of dicts, in order of first appearance
AllKeys(ds) ==
  IF ds = <<>> THEN <<>>
  ELSE Distinct(AllKeys(SubSeq(ds, 1, Len(ds) - 1)) \o Keys(ds[Len(ds)]))

\* the orders in which the set of edge attribute names may be iterated
AttrOrders(graph) ==
  LET es == edge_view(graph)
      all_attrs == ToSet(AllKeys([i \in 1..Len(es) |-> es[i].attrs]))
  IN {o \in [1..Cardinality(all_attrs) -> all_attrs] : ToSet(o) = all_attrs}

\* nx.to_pandas_edgelist(graph, source, target): the two endpoint columns,
\* then one column per edge attribute name (in set iteration order)
to_pandas_edgelist(graph, source, target, attr_order) ==
  LET es == edge_view(graph)
  IN [kind |-> "pandas",
      cols |-> <<source, target>> \o attr_order,
      rows |-> [i \in 1..Len(es) |->
                 <<es[i].u, es[i].v>> \o
                 [j \in 1..Len(attr_order) |-> GetOr(es[i].attrs, attr_order[j], NaN)]]]

\* DataFrame.drop(name, axis=1)
drop(df, name) ==
  LET keep == SelectSeq([j \in 1..Len(df.cols) |-> j], LAMBDA j : df.cols[j] # name)
  IN [df EXCEPT !.cols = [j \in 1..Len(keep) |-> df.cols[keep[j]]],
                !.rows = [i \in 1..Len(df.rows) |->
                           [j \in 1..Len(keep) |-> df.rows[i][keep[j]]]]]

\* DataFrame.rename(columns={old: new})
rename(df, old, new) ==
  [df EXCEPT !.cols = [j \in 1..Len(df.cols) |-> IF df.cols[j] = old THEN new ELSE df.cols[j]]]

\* the endpoint column is renamed only inside the branch that drops a
\* colliding attribute column
PlaceColumn(df, temp, name) ==
  IF InSeq(name, df.cols) THEN rename(drop(df, name), temp, name) ELSE df

\* pd.DataFrame.from_dict(node_dict, orient="index").reset_index(): the index
\* column first, then the attribute columns in order of first appearance
nodes_dataframe(graph) ==
  LET node_dict == [i \in 1..Len(graph.nodes) |->
                     <<graph.nodes[i].id,
                       IF graph.nodes[i].attrs # <<>> THEN graph.nodes[i].attrs
                       ELSE <<<<PLACEHOLDER, 0>>>> >>]
      attr_cols == AllKeys([i \in 1..Len(node_dict) |-> node_dict[i][2]])
  IN [kind |-> "pandas",
      cols |-> <<INDEX>> \o attr_cols,
      rows |-> [i \in 1..Len(node_dict) |->
                 <<node_dict[i][1]>> \o
                 [j \in 1..Len(attr_cols) |-> GetOr(node_dict[i][2], attr_cols[j], NaN)]]]

create_from_networkx_graph(graph, s, t, n, attr_order) ==
  IF classify(graph) = None
    THEN Raise("KiaraException", "invalid_graph_type", "", "", <<>>)
  ELSE
    LET graph_type == classify(graph)[1]
        edges_df0 == to_pandas_edgelist(graph, TEMP_SOURCE, TEMP_TARGET, attr_order)
        edges_df1 == PlaceColumn(edges_df0, TEMP_SOURCE, s)
        edges_df == PlaceColumn(edges_df1, TEMP_TARGET, t)
        edges_table == create_table(edges_df)
        nodes_data0 == nodes_dataframe(graph)
        nodes_data1 == IF InSeq(PLACEHOLDER, nodes_data0.cols)
                         THEN drop(nodes_data0, PLACEHOLDER) ELSE nodes_data0
        nodes_data == IF InSeq(n, nodes_data1.cols)
                        THEN drop(nodes_data1, INDEX) ELSE rename(nodes_data1, INDEX, n)
        nodes_table == create_table(nodes_data)
    IN create_from_tables(graph_type, edges_table, Some(nodes_table), s, t, n)

\* ------------------------------------------------------------------ query
\* SQL texts a caller may pass to query
Sqls == {"SELECT COUNT(*) FROM edges", "SELECT COUNT(*) FROM nodes",
         "SELECT nope FROM edges", "SELEC"}

\* con.execute(sql_query) followed by result.arrow(): the result table, or the
\* error the query engine raises
execute(g, sql_query) ==
  CASE sql_query = "SELECT COUNT(*) FROM edges" ->
         [status |-> "ok",
          table |-> Some([kind |-> "arrow", cols |-> <<"count_star()">>,
                          rows |-> <<<<num_edges(g)>>>>])]
    [] sql_query = "SELECT COUNT(*) FROM nodes" ->
         [status |-> "ok",
          table |-> Some([kind |-> "arrow", cols |-> <<"count_star()">>,
                          rows |-> <<<<num_nodes(g)>>>>])]
    [] OTHER -> [status |-> "error", table |-> None]

\* ------------------------------------------------------------ the inputs
SourceNames == {"source"}
TargetNames == {"target"}
NodeIdNames == {"id"}
Names ==
  [source_column_name : SourceNames, target_column_name : TargetNames,
   node_id_column_name : NodeIdNames]

EdgeColumnLists ==
  {<<"source", "target", "weight">>, <<"source", "weight">>,
   <<"target", "weight">>, <<"weight">>}
NodeColumnLists == {<<"id", "label">>, <<"label">>}

\* tables over the given columns: the columns in free hold any node identifiers,
\* every other column holds the row number
TablesOver(kind, cols, free, maxrows) ==
  LET keys == {j \in 1..Len(cols) : cols[j] \in free}
      rows(k, f) == [i \in 1..k |-> [j \in 1..Len(cols) |->
                                       IF j \in keys THEN f[i][j] ELSE i]]
  IN {[kind |-> kind, cols |-> cols, rows |-> rows(k, f)] :
        k \in 0..maxrows, f \in [1..maxrows -> [keys -> 1..MaxVal]]}

EdgeTables ==
  UNION {TablesOver("arrow", cols, {"source", "target"}, MaxRows) : cols \in EdgeColumnLists}

\* a supplied nodes table is an arrow table, or a KiaraTable without rows (with
\* rows, both kinds of argument take the same path through the factory)
NodeTables ==
  UNION {TablesOver("arrow", cols, {}, MaxNodeRows) \cup TablesOver("kiara", cols, {}, 0) :
           cols \in NodeColumnLists}

\* the arguments of a call of create_from_tables or create_from_kiara_tables;
\* an absent edges table happens only in a KiaraTables collection
Calls ==
  [graph_type : GraphTypes, edges : {Some(e) : e \in EdgeTables},
   nodes : {None} \cup {Some(t) : t \in NodeTables}]
  \cup [graph_type : GraphTypes, edges : {None}, nodes : {None}]

\* graph objects built by the caller with networkx, not by as_networkx_graph
GivenEdgeAttrs == {<<>>, <<<<"weight", 1>>>>, <<<<"source", 2>>, <<"target", 1>>>>}
GivenEdges == [u : {1}, v : 1..MaxVal, attrs : GivenEdgeAttrs]
GivenNodes == {<<>>, <<[id |-> 2, attrs |-> <<>>]>>, <<[id |-> 1, attrs |-> <<<<"label", 1>>>>]>>}
RECURSIVE AddEdges(_, _)
AddEdges(graph, es) ==
  IF es = <<>> THEN graph
  ELSE add_edge(AddEdges(graph, SubSeq(es, 1, Len(es) - 1)),
                es[Len(es)].u, es[Len(es)].v, es[Len(es)].attrs)
GivenGraphs ==
  {AddEdges([cls |-> cls, nodes |-> ns, edges |-> <<>>], es) :
     cls \in {"Graph", "DiGraph", "MultiGraph", "MultiDiGraph"},
     ns \in GivenNodes, es \in SeqsUpTo(GivenEdges, MaxRows)}
  \cup {EmptyGraph("object")}

\* ------------------------------------------------------ the state machine
VARIABLES
  names,    \* the three column names every call is given
  call,     \* the table arguments of the factory call, or None
  pc,       \* what the caller has done so far
  result,   \* what the table factory returned or raised, or None
  nxg,      \* the graph object at hand, or None
  rt,       \* what create_from_networkx_graph returned or raised, or None
  props,    \* the NetworkGraphProperties computed, or None
  conns,    \* the query engine connections opened so far: "open" or "closed"
  qres      \* what the last query call returned or raised, or None

vars == <<names, call, pc, result, nxg, rt, props, conns, qres>>

InitTables ==
  /\ names \in Names
  /\ call \in {Some(c) : c \in Calls}
  /\ pc = "start"
  /\ nxg = None

InitGraphObject ==
  /\ names \in Names
  /\ call = None
  /\ pc = "given"
  /\ nxg \in {Some(g) : g \in GivenGraphs}

Init ==
  /\ (InitTables \/ InitGraphObject)
  /\ result = None
  /\ rt = None
  /\ props = None
  /\ conns = <<>>
  /\ qres = None

s_ == names.source_column_name
t_ == names.target_column_name
n_ == names.node_id_column_name

Do_create_from_tables ==
  /\ pc = "start"
  /\ call[1].edges # None
  /\ result' = Some(create_from_tables(call[1].graph_type, call[1].edges[1],
                                       call[1].nodes, s_, t_, n_))
  /\ pc' = IF result'[1].status = "ok" THEN "built" ELSE "failed"
  /\ UNCHANGED <<names, call, nxg, rt, props, conns, qres>>

\* the KiaraTables collection that holds the given tables
KiaraTablesOf(c) ==
  (IF c.edges = None THEN <<>> ELSE <<<<EDGES_TABLE_NAME, create_table(c.edges[1])>>>>)
  \o (IF c.nodes = None THEN <<>> ELSE <<<<NODES_TABLE_NAME, create_table(c.nodes[1])>>>>)

Do_create_from_kiara_tables ==
  /\ pc = "start"
  /\ result' = Some(create_from_kiara_tables(call[1].graph_type, KiaraTablesOf(call[1]),
                                             s_, t_, n_))
  /\ pc' = IF result'[1].status = "ok" THEN "built" ELSE "failed"
  /\ UNCHANGED <<names, call, nxg, rt, props, conns, qres>>

Do_as_networkx_graph ==
  /\ pc = "built"
  /\ nxg' = Some(as_networkx_graph(result[1].graph[1]))
  /\ pc' = "materialized"
  /\ UNCHANGED <<names, call, result, rt, props, conns, qres>>

Do_create_from_networkx_graph ==
  /\ pc \in {"materialized", "given"}
  /\ \E attr_order \in AttrOrders(nxg[1]) :
       rt' = Some(create_from_networkx_graph(nxg[1], s_, t_, n_, attr_order))
  /\ pc' = "converted"
  /\ UNCHANGED <<names, call, result, nxg, props, conns, qres>>

Do_create_value_metadata ==
  /\ pc = "built"
  /\ props' = Some(create_value_metadata(result[1].graph[1]))
  /\ pc' = "described"
  /\ UNCHANGED <<names, call, result, nxg, rt, conns, qres>>

\* query opens a connection, executes and returns or raises; no statement of
\* the method closes the connection. When the call raises, the traceback keeps
\* the frame and its connection alive; when it returns, the connection object
\* is unreferenced and the interpreter may finalize it at once or later
Do_query ==
  /\ pc \in {"built", "queried"}
  /\ Len(conns) < MaxQueries
  /\ \E sql_query \in Sqls :
       /\ qres' = Some(execute(result[1].graph[1], sql_query))
       /\ \E con \in (IF qres'[1].status = "ok" THEN {"open", "closed"} ELSE {"open"}) :
            conns' = Append(conns, con)
  /\ pc' = "queried"
  /\ UNCHANGED <<names, call, result, nxg, rt, props>>

\* the interpreter finalizes a connection object no one refers to any more,
\* at a time of its choosing
Finalize ==
  /\ \E i \in 1..Len(conns) :
       /\ conns[i] = "open"
       /\ conns' = [conns EXCEPT ![i] = "closed"]
  /\ UNCHANGED <<names, call, pc, result, nxg, rt, props, qres>>

\* the factories, the two conversions and the metadata
Next ==
  \/ Do_create_from_tables
  \/ Do_create_from_kiara_tables
  \/ Do_as_networkx_graph
  \/ Do_create_from_networkx_graph
  \/ Do_create_value_metadata

Spec == Init /\ [][Next]_vars

\* a NetworkGraph built from tables and then queried
InitQuery ==
  /\ InitTables
  /\ result = None
  /\ rt = None
  /\ props = None
  /\ conns = <<>>
  /\ qres = None

NextQuery ==
  \/ Do_create_from_tables
  \/ Do_query
  \/ Finalize

SpecQuery == InitQuery /\ [][NextQuery]_vars

\* ================================================================ claims
\* helpers of the claims
Built == result # None /\ result[1].status = "ok"
T == result[1].graph[1]
CallEdges == call[1].edges[1]
Converted == pc = "converted"
FourClasses == {"Graph", "DiGraph", "MultiGraph", "MultiDiGraph"}
IsMultiType(gt) == gt \in {"directed_multi", "undirected_multi"}
IsDirectedType(gt) == gt \in {"directed", "directed_multi"}
\* rows i and j of the edges table of g join the same endpoints
SamePair(g, i, j) ==
  LET src == column(edges(g), g.source_column_name)
      dst == column(edges(g), g.target_column_name)
  IN (src[i] = src[j] /\ dst[i] = dst[j])
     \/ (~IsDirectedType(g.graph_type) /\ src[i] = dst[j] /\ dst[i] = src[j])
\* the last row of the edges table that joins the same endpoints as row i
LastOfPair(g, i) ==
  CHOOSE j \in 1..num_edges(g) :
    SamePair(g, i, j) /\ \A k \in 1..num_edges(g) : SamePair(g, i, k) => k <= j
\* the number of endpoint pairs of the edges table of g
NumPairs(g) == Cardinality({LastOfPair(g, i) : i \in 1..num_edges(g)})

\* C1: whenever a table factory was called with an edges table that lacks the
\* source or the target column, it raised an error that names a missing column
\* of the edges table and lists the edges table's columns, and returned no
\* NetworkGraph, with or without a nodes table.
C1_MissingEdgeColumnFails ==
  (result # None /\ call[1].edges # None
     /\ (~InSeq(s_, CallEdges.cols) \/ ~InSeq(t_, CallEdges.cols)))
  => /\ result[1].status = "error"
     /\ result[1].graph = None
     /\ result[1].error[1].what = "missing_column"
     /\ result[1].error[1].table = EDGES_TABLE_NAME
     /\ result[1].error[1].column \in {s_, t_}
     /\ ~InSeq(result[1].error[1].column, CallEdges.cols)
     /\ result[1].error[1].available = CallEdges.cols

\* a call with a nodes table that lacks the id column and an edges table that
\* lacks the target column has failed
C1_Witness ==
  /\ result # None /\ call[1].edges # None /\ call[1].nodes # None
  /\ Len(call[1].nodes[1].rows) > 0
  /\ ~InSeq(n_, call[1].nodes[1].cols)
  /\ InSeq(s_, CallEdges.cols) /\ ~InSeq(t_, CallEdges.cols)
  /\ result[1].status = "error"

\* C2: whenever create_from_tables was called with a nodes table that lacks
\* the node id column (the edges table being valid), it raised an error that
\* names the column and lists the nodes table's columns.
C2_SuppliedNodesValidated ==
  (result # None /\ call[1].edges # None /\ call[1].nodes # None
     /\ InSeq(s_, CallEdges.cols) /\ InSeq(t_, CallEdges.cols)
     /\ ~InSeq(n_, call[1].nodes[1].cols))
  => /\ result[1].status = "error"
     /\ result[1].error[1].table = NODES_TABLE_NAME
     /\ result[1].error[1].column = n_
     /\ result[1].error[1].available = call[1].nodes[1].cols

\* C3: a NetworkGraph built without a nodes table has a nodes table with the
\* single node id column, whose rows are the distinct values of the source and
\* target columns in ascending order; no edge rows give no node rows.
C3_InferredNodes ==
  (Built /\ call[1].nodes = None)
  => LET ids == column(nodes(T), n_)
     IN /\ nodes(T).cols = <<n_>>
        /\ \A i \in 1..num_nodes(T) : Len(nodes(T).rows[i]) = 1
        /\ ToSet(ids) = ToSet(column(CallEdges, s_)) \cup ToSet(column(CallEdges, t_))
        /\ \A i, j \in 1..Len(ids) : i < j => ids[i] < ids[j]
        /\ (num_rows(CallEdges) = 0 => num_nodes(T) = 0)
        /\ edges(T).rows = CallEdges.rows

\* edges (2,1),(1,2) without a nodes table gave the nodes 1, 2
C3_Witness ==
  /\ Built /\ call[1].nodes = None
  /\ column(CallEdges, s_) = <<2, 1>> /\ column(CallEdges, t_) = <<1, 2>>
  /\ nodes(T).rows = <<<<1>>, <<2>>>>

\* C4: converting the graph object of a NetworkGraph T back with the same
\* column names succeeds and gives the graph type, node count and edge count
\* of T (for the simple graph types: one edge per endpoint pair), and the
\* attribute values of every edge row that survives are in the edges table.
C4_RoundTrip ==
  (Converted /\ Built)
  => /\ rt[1].status = "ok"
     /\ rt[1].graph[1].graph_type = T.graph_type
     /\ num_nodes(rt[1].graph[1]) = num_nodes(T)
     /\ num_edges(rt[1].graph[1]) =
          IF IsMultiType(T.graph_type) THEN num_edges(T) ELSE NumPairs(T)
     /\ \A i \in 1..num_edges(T) :
          \E k \in 1..num_edges(rt[1].graph[1]) :
            \A c \in ToSet(edges(T).cols) \ {s_, t_} :
              /\ InSeq(c, edges(rt[1].graph[1]).cols)
              /\ column(edges(rt[1].graph[1]), c)[k] = column(edges(T), c)[LastOfPair(T, i)]

\* C5: as_networkx_graph turns every edge row of a multi graph type into an
\* edge of its own, in table order; for a simple graph type it keeps one edge
\* per endpoint pair, with the attributes of the last row of that pair; the
\* metadata counts those edges.
C5_EdgeRows ==
  /\ (pc = "materialized") =>
       LET g == nxg[1]
           src == column(edges(T), s_)
           dst == column(edges(T), t_)
       IN IF IsMultiType(T.graph_type)
            THEN /\ Len(g.edges) = num_edges(T)
                 /\ Len(edge_view(g)) = num_edges(T)
                 /\ \A i \in 1..num_edges(T) :
                      /\ g.edges[i].u = src[i] /\ g.edges[i].v = dst[i]
                      /\ g.edges[i].attrs = row_to_dict(edges(T), i)
          ELSE /\ Len(g.edges) = NumPairs(T)
               /\ Len(edge_view(g)) = NumPairs(T)
               /\ \A i \in 1..num_edges(T) :
                    LET hit == {k \in 1..Len(g.edges) :
                                  \/ (g.edges[k].u = src[i] /\ g.edges[k].v = dst[i])
                                  \/ /\ T.graph_type = "undirected"
                                     /\ g.edges[k].u = dst[i] /\ g.edges[k].v = src[i]}
                    IN /\ Cardinality(hit) = 1
                       /\ \A k \in hit :
                            g.edges[k].attrs = row_to_dict(edges(T), LastOfPair(T, i))
  /\ (pc = "described") =>
       props[1].number_of_edges =
         IF IsMultiType(T.graph_type) THEN num_edges(T) ELSE NumPairs(T)

\* two rows (1,2) of a directed_multi NetworkGraph became two edges
C5_Witness ==
  /\ pc = "materialized"
  /\ T.graph_type = "directed_multi"
  /\ column(edges(T), s_) = <<1, 1>> /\ column(edges(T), t_) = <<2, 2>>
  /\ Len(nxg[1].edges) = 2

\* C6: in the graph object of as_networkx_graph, the attributes of the node of
\* a node row are the columns other than the node id column, and the
\* attributes of an edge are the columns other than the source and target
\* columns.
C6_KeyColumnsExcluded ==
  (pc = "materialized")
  => /\ \A i \in 1..num_nodes(T) :
          ToSet(Keys(node_attrs(nxg[1], column(nodes(T), n_)[i])))
            = ToSet(nodes(T).cols) \ {n_}
     /\ \A k \in 1..Len(nxg[1].edges) :
          ToSet(Keys(nxg[1].edges[k].attrs)) = ToSet(edges(T).cols) \ {s_, t_}

\* the graph type that belongs to a graph class
TypeOfClass(cls) ==
  CASE cls = "MultiDiGraph" -> "directed_multi"
    [] cls = "MultiGraph" -> "undirected_multi"
    [] cls = "DiGraph" -> "directed"
    [] cls = "Graph" -> "undirected"

\* C7: create_from_networkx_graph raises the invalid graph type error exactly
\* for objects of none of the four graph classes, and a NetworkGraph it returns
\* has the graph type of the object's class; as_networkx_graph builds the class
\* of the graph type, so converting back returns the graph type of T.
C7_Classification ==
  /\ Converted =>
       /\ (nxg[1].cls \notin FourClasses) <=>
            (rt[1].status = "error" /\ rt[1].error[1].what = "invalid_graph_type")
       /\ (nxg[1].cls \notin FourClasses) => rt[1].graph = None
       /\ (rt[1].status = "ok") => rt[1].graph[1].graph_type = TypeOfClass(nxg[1].cls)
       /\ (rt[1].status = "ok" /\ Built) => rt[1].graph[1].graph_type = T.graph_type
  /\ (pc = "materialized") =>
       /\ nxg[1].cls \in FourClasses
       /\ TypeOfClass(nxg[1].cls) = T.graph_type

\* a directed multigraph was converted into a directed_multi NetworkGraph
C7_Witness ==
  /\ Converted
  /\ nxg[1].cls = "MultiDiGraph"
  /\ rt[1].status = "ok"
  /\ rt[1].graph[1].graph_type = "directed_multi"

\* a NetworkGraph holds the tables edges and nodes, with the key columns
WellFormed(g) ==
  /\ Keys(g.tables) = <<EDGES_TABLE_NAME, NODES_TABLE_NAME>>
  /\ InSeq(g.node_id_column_name, nodes(g).cols)
  /\ InSeq(g.source_column_name, edges(g).cols)
  /\ InSeq(g.target_column_name, edges(g).cols)

\* C8: every NetworkGraph a factory returned holds exactly the tables edges
\* and nodes, with the node id column in nodes and the source and target
\* columns in edges; when no nodes table was supplied, every source and target
\* value is a node id.
C8_WellFormed ==
  /\ Built =>
       /\ WellFormed(T)
       /\ <<T.source_column_name, T.target_column_name, T.node_id_column_name>>
            = <<s_, t_, n_>>
       /\ (call[1].nodes = None) =>
            ToSet(column(edges(T), s_)) \cup ToSet(column(edges(T), t_))
              \subseteq ToSet(column(nodes(T), n_))
  /\ (rt # None /\ rt[1].status = "ok") => WellFormed(rt[1].graph[1])

\* a NetworkGraph was built from a supplied nodes table with rows
C8_Witness ==
  /\ Built
  /\ call[1].nodes # None /\ Len(call[1].nodes[1].rows) > 0
  /\ num_edges(T) > 0

\* C9: for every graph object of one of the four classes, the conversion
\* renames the endpoint columns into the source and target column names: it
\* returns a NetworkGraph whose edges table has no temporary column and whose
\* source and target columns hold the endpoints of the edges.
C9_EndpointsRenamed ==
  (Converted /\ nxg[1].cls \in FourClasses)
  => /\ rt[1].status = "ok"
     /\ ~InSeq(TEMP_SOURCE, edges(rt[1].graph[1]).cols)
     /\ ~InSeq(TEMP_TARGET, edges(rt[1].graph[1]).cols)
     /\ LET es == edge_view(nxg[1])
        IN /\ column(edges(rt[1].graph[1]), s_) = [i \in 1..Len(es) |-> es[i].u]
           /\ column(edges(rt[1].graph[1]), t_) = [i \in 1..Len(es) |-> es[i].v]

\* C10: after a query call has ended, every connection a query call opened is
\* closed, each call having opened one, and the tables are unchanged.
C10_ConnectionsClosed ==
  (pc = "queried")
  => /\ Len(conns) > 0
     /\ \A i \in 1..Len(conns) : conns[i] = "closed"
     /\ edges(T).rows = CallEdges.rows

====
